---- MODULE Spec2Model ----
(***************************************************************************)
(* LMStudio MCP bridge: the resilient client (src/src/lm-studio-client.ts). *)
(*                                                                         *)
(* Node.js runs every callback to its next await without interleaving, so  *)
(* one action is one run-to-suspension segment of a handler:               *)
(*   Complete            complete() from entry to its first await/return   *)
(*   CheckHealthDone     the re-probe awaited at line 115 settles, and the *)
(*                       awaiting complete() resumes at line 118 (the      *)
(*                       resumption is the next microtask of the same      *)
(*                       promise chain)                                    *)
(*   AttemptSucceeds/AttemptFails   one pRetry attempt settles             *)
(*   RetryFires          pRetry's back-off timer starts the next attempt   *)
(*   HealthCheckInterval / BackgroundProbeDone   the setInterval probe     *)
(*   Tick                Date.now() advances                               *)
(*                                                                         *)
(* Time is in milliseconds, as in the source; the clock advances in steps  *)
(* of TickMs.  A probe is bounded by its 5 s pTimeout and a retry back-off *)
(* by 3 * retryDelay, both shorter than a step, so neither outlives the    *)
(* instant it started in; an attempt is bounded by config.lmStudio.timeout.*)
(***************************************************************************)
EXTENDS Integers, Sequences, FiniteSets, Bags, TLC

\* ---- bounds of the model
MaxInFlight == 2      \* complete() calls that can be suspended at one time
MaxRequests == 3      \* cap of the totalRequests counter
TickMs == 30000       \* step of the clock
MaxTicks == 2
MaxBackoffs == 4
MaxIntervals == 6      \* firings of the health-check interval the longer clock spans

\* ---- configuration (src/unnamed/part_002:13-44), small values
maxConcurrent == 1
maxRequestsPerMinute == 2
maxRetries == 1
ttl == 30
gracefulShutdownTimeout == 2000

\* ---- program constants
timeout == 30000
healthCheckInterval == 60000
OneMinute == 60000
StaleAfter == 10000
PollMs == 1000

StartTime == 2 * OneMinute
EndTime == StartTime + MaxTicks * TickMs

Keys == {"k1", "k2"}
NoKey == "nokey"
Values == {"", "a"}
\* the choices of a response that passed the schema, each by its message content
Responses == {<<>>, <<"">>, <<"a">>}
Undefined == "undefined"
FailKinds == {"timeout", "error", "invalid"}

VARIABLES
  now,                \* Date.now()
  rateLimitEnabled,   \* config.rateLimit.enabled
  cacheEnabled,       \* config.cache.enabled
  keysInUse,          \* the cacheKey options the tool handlers of this run pass
  isHealthy, lastHealthCheck,
  probed,             \* how the probe that settled last ended: "none" before the first
  probedAt,           \* Date.now() when that probe settled (the client keeps it only
                      \* for a success: line 56)
  activeRequests, totalRequests, totalErrors,
  requestTimestamps,
  cache,              \* NodeCache data: key -> <<>> (absent) or <<value, expiry>>
  calls,              \* the suspended complete() calls: a bag of call records
  bgProbes,           \* checkHealth() runs of the health-check loop in flight
  nextHealthCheck,    \* when the setInterval timer fires next
  admissions,         \* times, within the last minute, at which a call passed enforceRateLimit
  returned,           \* what the last step returned or threw to a caller, if anything
  \* ---- the server of src/src/index.ts
  isShuttingDown,
  serverActive,       \* the size of the server's activeRequests set (its members are
                      \* fresh UUIDs, each deleted by the handler that added it)
  reading,            \* tool handlers suspended in fs.readFile, before complete()
  signals,            \* SIGINT/SIGTERM received so far: 0, 1, or 2 for more than one
  polls,              \* 1 s sleeps of the first drain loop that have ended
  exited,             \* "no", or how the process ended: "graceful" (0), "forced" (1)
  reply,              \* what the tool-call handler returned in the last step, if anything
  \* ---- the client's shutdown()
  shutdownCalled,     \* shutdown() has been called
  \* ---- the tool handlers' prompts and cache keys (src/unnamed/part_002)
  lastCall, prevCall, \* the last two process_markdown calls: arguments, prompt, key
  \* ---- one pRetry run and its back-off (lm-studio-client.ts:127-155)
  retryDelay,         \* config.lmStudio.retryDelay
  retryLimit,         \* config.lmStudio.maxRetries of that run
  retryRun,           \* where the run is: its attempt number and the delays it waited
  \* ---- the remote endpoint
  endpoint            \* "up" or "down" where the specification follows it; "any"
                      \* where the outcome of each probe is left open

vars == <<now, rateLimitEnabled, cacheEnabled, keysInUse, isHealthy, lastHealthCheck, probed,
          probedAt,
          activeRequests, totalRequests, totalErrors, requestTimestamps,
          cache, calls, bgProbes, nextHealthCheck, admissions, returned,
          isShuttingDown, serverActive, reading, signals, polls,
          exited, reply, shutdownCalled, lastCall, prevCall,
          retryDelay, retryLimit, retryRun, endpoint>>

config == <<rateLimitEnabled, cacheEnabled, keysInUse>>
health == <<isHealthy, lastHealthCheck, probed, probedAt>>
shutdown == <<isShuttingDown, signals, polls, exited>>
server == <<shutdown, serverActive, reading, reply>>
\* the client's state apart from what the last step returned
\* what only the specification that is about it changes
retry == <<retryDelay, retryLimit, retryRun>>
aside == <<shutdownCalled, lastCall, prevCall, retry, endpoint>>
clientKept_NoAside == <<now, config, health, activeRequests, totalRequests, totalErrors,
                        requestTimestamps, cache, calls, bgProbes, nextHealthCheck,
                        admissions>>
clientKept == <<now, config, aside, health, activeRequests, totalRequests, totalErrors,
                requestTimestamps, cache, calls, bgProbes, nextHealthCheck, admissions>>

\* A complete() call suspended at the await of line 115 (the re-probe).
Probing(k) == [pc |-> "probing", key |-> k, attempts |-> 0, attemptAt |-> 0]

\* A complete() call suspended in pRetry with its n-th attempt outstanding.
Running(k, n, t) == [pc |-> "running", key |-> k, attempts |-> n, attemptAt |-> t]

\* A complete() call suspended in pRetry's back-off after n failed attempts.
Waiting(k, n) == [pc |-> "waiting", key |-> k, attempts |-> n, attemptAt |-> 0]

\* The step settled no complete() promise.
NoReturn ==
  [key |-> NoKey, outcome |-> "none", result |-> Undefined, cause |-> "none",
   attempts |-> 0, response |-> <<>>]

\* one suspended call, as a bag
One(r) == SetToBag({r})

\* ---- NodeCache (stdTTL = config.cache.ttl seconds, useClones false)
\* get(): an entry whose expiry lies before Date.now() is deleted and undefined
CacheGet(ch, k, t) ==
  IF ch[k] = <<>> THEN Undefined
  ELSE IF ch[k][2] < t THEN Undefined
  ELSE ch[k][1]

CacheAfterGet(ch, k, t) ==
  IF ch[k] # <<>> /\ ch[k][2] < t THEN [ch EXCEPT ![k] = <<>>] ELSE ch

\* (mutant) set() keeps the entry a key already has
CacheSet_KeepsFirst(ch, k, v, t) ==
  IF ch[k] # <<>> THEN ch ELSE [ch EXCEPT ![k] = <<v, t + ttl * 1000>>]

\* set(): the entry of the key is replaced, and lives for stdTTL seconds
CacheSet(ch, k, v, t) == [ch EXCEPT ![k] = <<v, t + ttl * 1000>>]

\* `if (cached)`: JavaScript truthiness of string | undefined
Truthy(v) == v # Undefined /\ v # ""

\* (mutant) the concurrency check of line 84 written with > for >=
enforceRateLimit_LateConcurrency(ts, active, t) ==
  IF ~rateLimitEnabled THEN [throws |-> "no", ts |-> ts]
  ELSE LET oneMinuteAgo == t - OneMinute
           pruned == SelectSeq(ts, LAMBDA x : x > oneMinuteAgo)
       IN IF Len(pruned) >= maxRequestsPerMinute
            THEN [throws |-> "RateLimit", ts |-> pruned]
          ELSE IF active > maxConcurrent
            THEN [throws |-> "TooMany", ts |-> pruned]
          ELSE [throws |-> "no", ts |-> Append(pruned, t)]

\* (mutant) the rate check of line 79 written with > for >=
enforceRateLimit_LateRate(ts, active, t) ==
  IF ~rateLimitEnabled THEN [throws |-> "no", ts |-> ts]
  ELSE LET oneMinuteAgo == t - OneMinute
           pruned == SelectSeq(ts, LAMBDA x : x > oneMinuteAgo)
       IN IF Len(pruned) > maxRequestsPerMinute
            THEN [throws |-> "RateLimit", ts |-> pruned]
          ELSE IF active >= maxConcurrent
            THEN [throws |-> "TooMany", ts |-> pruned]
          ELSE [throws |-> "no", ts |-> Append(pruned, t)]

\* (mutant) the timestamp of line 88 is pushed before the checks
enforceRateLimit_StampsRejected(ts, active, t) ==
  IF ~rateLimitEnabled THEN [throws |-> "no", ts |-> ts]
  ELSE LET oneMinuteAgo == t - OneMinute
           pruned == SelectSeq(ts, LAMBDA x : x > oneMinuteAgo)
       IN IF Len(pruned) >= maxRequestsPerMinute
            THEN [throws |-> "RateLimit", ts |-> Append(pruned, t)]
          ELSE IF active >= maxConcurrent
            THEN [throws |-> "TooMany", ts |-> Append(pruned, t)]
          ELSE [throws |-> "no", ts |-> Append(pruned, t)]

\* (mutant) the push of line 88 is missing
enforceRateLimit_NoStamp(ts, active, t) ==
  IF ~rateLimitEnabled THEN [throws |-> "no", ts |-> ts]
  ELSE LET oneMinuteAgo == t - OneMinute
           pruned == SelectSeq(ts, LAMBDA x : x > oneMinuteAgo)
       IN IF Len(pruned) >= maxRequestsPerMinute
            THEN [throws |-> "RateLimit", ts |-> pruned]
          ELSE IF active >= maxConcurrent
            THEN [throws |-> "TooMany", ts |-> pruned]
          ELSE [throws |-> "no", ts |-> pruned]

\* (mutant) enforceRateLimit with > for the >= of line 79: one admission
\* more than maxRequestsPerMinute is recorded before a call is refused
enforceRateLimit_OffByOne(ts, active, t) ==
  IF ~rateLimitEnabled THEN [throws |-> "no", ts |-> ts]
  ELSE LET oneMinuteAgo == t - OneMinute
           pruned == SelectSeq(ts, LAMBDA x : x > oneMinuteAgo)
       IN IF Len(pruned) > maxRequestsPerMinute
            THEN [throws |-> "RateLimit", ts |-> pruned]
          ELSE IF active >= maxConcurrent
            THEN [throws |-> "TooMany", ts |-> pruned]
          ELSE [throws |-> "no", ts |-> Append(pruned, t)]

\* (mutant) enforceRateLimit without the early return of line 72: the bounds
\* are enforced and the admission is recorded whatever the flag says
enforceRateLimit_IgnoresFlag(ts, active, t) ==
  LET oneMinuteAgo == t - OneMinute
      pruned == SelectSeq(ts, LAMBDA x : x > oneMinuteAgo)
  IN IF Len(pruned) >= maxRequestsPerMinute
       THEN [throws |-> "RateLimit", ts |-> pruned]
     ELSE IF active >= maxConcurrent
       THEN [throws |-> "TooMany", ts |-> pruned]
     ELSE [throws |-> "no", ts |-> Append(pruned, t)]

\* ---- enforceRateLimit(): what it throws and the timestamps it leaves
enforceRateLimit(ts, active, t) ==
  IF ~rateLimitEnabled THEN [throws |-> "no", ts |-> ts]
  ELSE LET oneMinuteAgo == t - OneMinute
           pruned == SelectSeq(ts, LAMBDA x : x > oneMinuteAgo)
       IN IF Len(pruned) >= maxRequestsPerMinute
            THEN [throws |-> "RateLimit", ts |-> pruned]
          ELSE IF active >= maxConcurrent
            THEN [throws |-> "TooMany", ts |-> pruned]
          ELSE [throws |-> "no", ts |-> Append(pruned, t)]

\* (mutant) the staleness test of line 114 is dropped
NeedsReprobe_Always(healthy, last, t) == ~healthy

\* line 114: a stale unhealthy reading triggers a synchronous re-probe
NeedsReprobe(healthy, last, t) == ~healthy /\ (t - last) > StaleAfter

\* what a call that settles hands to its caller
Settled(k, how, v, why, n) ==
  [key |-> k, outcome |-> how, result |-> v, cause |-> why, attempts |-> n,
   response |-> <<>>]

\* what a call that succeeds hands to its caller, and the choices of the
\* response the result was taken from
SettledWith(k, v, n, choices) ==
  [Settled(k, "ok", v, "none", n) EXCEPT !.response = <<choices>>]

\* (mutant) the `|| ''` of line 157 is missing
ResultOf_NoFallback(choices) ==
  IF Len(choices) = 0 THEN Undefined ELSE choices[1]

\* line 157: response.choices[0]?.message?.content || ''
ResultOf(choices) ==
  IF Len(choices) = 0 THEN ""
  ELSE IF choices[1] = "" THEN ""
  ELSE choices[1]

\* (mutant) the counters of lines 122-123 are incremented before the health
\* gate, and only the count of active calls is taken back when it fails
HealthGate_CountsFirst(others, k, healthy) ==
  IF ~healthy
    THEN /\ calls' = others
         /\ returned' = Settled(k, "Unavailable", Undefined, "none", 0)
         /\ totalRequests' = totalRequests + 1
         /\ UNCHANGED activeRequests
    ELSE /\ activeRequests' = activeRequests + 1
         /\ totalRequests' = totalRequests + 1
         /\ calls' = others (+) One(Running(k, 1, now))
         /\ returned' = NoReturn

\* (mutant) the health gate of line 118 is missing
HealthGate_Open(others, k, healthy) ==
  /\ activeRequests' = activeRequests + 1
  /\ totalRequests' = totalRequests + 1
  /\ calls' = others (+) One(Running(k, 1, now))
  /\ returned' = NoReturn

\* lines 118-124: the health gate and the dispatch of the first attempt;
\* others are the other suspended calls
HealthGate(others, k, healthy) ==
  IF ~healthy
    THEN /\ calls' = others
         /\ returned' = Settled(k, "Unavailable", Undefined, "none", 0)
         /\ UNCHANGED <<activeRequests, totalRequests>>
    ELSE /\ activeRequests' = activeRequests + 1
         /\ totalRequests' = totalRequests + 1
         /\ calls' = others (+) One(Running(k, 1, now))
         /\ returned' = NoReturn

\* (mutant) a failed probe leaves the state as it was set by the last success
ProbeHealthy_Latched(ok) == TRUE

\* checkHealth() lines 54-56 and 65: what a settled probe writes; ok is false
\* when models.list() rejects or the 5 s pTimeout fires (both reach the catch)
ProbeHealthy(ok) == ok
ProbeOutcome(ok) == IF ok THEN "ok" ELSE "failed"
ProbeLastCheck(ok, last, t) == IF ok THEN t ELSE last

\* no process_markdown call yet
NoCall == [made |-> FALSE]

\* pRetry has just been called: the first attempt runs, nothing was waited
FirstAttempt == [phase |-> "attempt", attemptNumber |-> 1, delays |-> <<>>]

\* the retry settings at their defaults (src/unnamed/part_002:18-19)
RetryDefaults ==
  /\ retryDelay = 1000
  /\ retryLimit = 3
  /\ retryRun = FirstAttempt

\* (mutant) the field isHealthy is initialised to true
Constructed_StartsHealthy ==
  /\ now = StartTime
  /\ isHealthy = TRUE
  /\ lastHealthCheck = 0
  /\ probed = "none"
  /\ probedAt = 0
  /\ activeRequests = 0
  /\ totalRequests = 0
  /\ totalErrors = 0
  /\ requestTimestamps = <<>>
  /\ cache = [k \in Keys |-> <<>>]
  /\ calls = EmptyBag
  /\ bgProbes = 1                       \* the initial checkHealth() of line 43
  /\ nextHealthCheck = StartTime + healthCheckInterval
  /\ admissions = <<>>
  /\ returned = NoReturn
  /\ shutdownCalled = FALSE
  /\ lastCall = NoCall
  /\ prevCall = NoCall

\* the outcome of each probe is left open
AnyEndpoint == endpoint = "any"

\* the state after the constructor, whatever the configuration
Constructed ==
  /\ now = StartTime
  /\ isHealthy = FALSE
  /\ lastHealthCheck = 0
  /\ probed = "none"
  /\ probedAt = 0
  /\ activeRequests = 0
  /\ totalRequests = 0
  /\ totalErrors = 0
  /\ requestTimestamps = <<>>
  /\ cache = [k \in Keys |-> <<>>]
  /\ calls = EmptyBag
  /\ bgProbes = 1                       \* the initial checkHealth() of line 43
  /\ nextHealthCheck = StartTime + healthCheckInterval
  /\ admissions = <<>>
  /\ returned = NoReturn
  /\ shutdownCalled = FALSE
  /\ lastCall = NoCall
  /\ prevCall = NoCall

\* no handler has answered
NoReply == [isError |-> FALSE, text |-> "none"]

\* the state of LMStudioMCPServer after construction and start()
ServerConstructed ==
  /\ isShuttingDown = FALSE
  /\ serverActive = 0
  /\ reading = 0
  /\ signals = 0
  /\ polls = 0
  /\ exited = "no"
  /\ reply = NoReply

\* the default configuration (rate limit and cache enabled); the tools pass
\* one cache key (generate_docs, summarize, ...) or none (analyze_code, ...)
Init ==
  /\ rateLimitEnabled = TRUE
  /\ cacheEnabled = TRUE
  /\ keysInUse = {"k1", NoKey}
  /\ Constructed
  /\ ServerConstructed
  /\ AnyEndpoint
  /\ RetryDefaults

\* (mutant) the cache is used whenever a key is passed, enabled or not
CacheWanted_KeyOnly(k) == k # NoKey

\* lines 101 and 168: `config.cache.enabled && options.cacheKey`
CacheWanted(k) == cacheEnabled /\ k # NoKey

\* complete(prompt, {cacheKey: k}) from entry to its first suspension
Complete(k) ==
  /\ totalRequests < MaxRequests
  /\ BagCardinality(calls) < MaxInFlight
  /\ LET lookup == CacheWanted(k)
         cached == IF lookup THEN CacheGet(cache, k, now) ELSE Undefined
         rl     == enforceRateLimit(requestTimestamps, activeRequests, now)
     IN /\ cache' = IF lookup THEN CacheAfterGet(cache, k, now) ELSE cache
        /\ IF Truthy(cached)
             THEN /\ totalRequests' = totalRequests + 1
                  /\ returned' = Settled(k, "cached", cached, "none", 0)
                  /\ UNCHANGED <<requestTimestamps, admissions, activeRequests, calls>>
           ELSE IF rl.throws # "no"
             THEN /\ requestTimestamps' = rl.ts
                  /\ returned' = Settled(k, rl.throws, Undefined, "none", 0)
                  /\ UNCHANGED <<admissions, activeRequests, totalRequests, calls>>
           ELSE /\ requestTimestamps' = rl.ts
                /\ admissions' = Append(admissions, now)
                /\ IF NeedsReprobe(isHealthy, lastHealthCheck, now)
                     THEN /\ calls' = calls (+) One(Probing(k))
                          /\ returned' = NoReturn
                          /\ UNCHANGED <<activeRequests, totalRequests>>
                     ELSE HealthGate(calls, k, isHealthy)
  /\ UNCHANGED <<now, config, aside, health, totalErrors, bgProbes, nextHealthCheck>>

\* (mutant) the re-probe's outcome decides for the call that awaited it, but
\* is written to the fields only when no probe of the loop is in flight
CheckHealthDone_YieldsToLoop(r, ok) ==
  /\ r.pc = "probing"
  /\ isHealthy' = IF bgProbes > 0 THEN isHealthy ELSE ProbeHealthy(ok)
  /\ lastHealthCheck' = ProbeLastCheck(ok, lastHealthCheck, now)
  /\ probed' = ProbeOutcome(ok)
  /\ probedAt' = now
  /\ HealthGate(calls (-) One(r), r.key, ProbeHealthy(ok))
  /\ UNCHANGED <<now, config, aside, totalErrors, requestTimestamps, cache, bgProbes,
                 nextHealthCheck, admissions>>

\* the probe a complete() call awaits settles; the call resumes at line 118
CheckHealthDone(r, ok) ==
  /\ r.pc = "probing"
  /\ isHealthy' = ProbeHealthy(ok)
  /\ lastHealthCheck' = ProbeLastCheck(ok, lastHealthCheck, now)
  /\ probed' = ProbeOutcome(ok)
  /\ probedAt' = now
  /\ HealthGate(calls (-) One(r), r.key, isHealthy')
  /\ UNCHANGED <<now, config, aside, totalErrors, requestTimestamps, cache, bgProbes,
                 nextHealthCheck, admissions>>

\* (mutant) the interval's callback does not probe
HealthCheckInterval_Idle ==
  /\ now >= nextHealthCheck
  /\ nextHealthCheck' = nextHealthCheck + healthCheckInterval
  /\ returned' = NoReturn
  /\ UNCHANGED <<now, config, aside, health, activeRequests, totalRequests, totalErrors,
                 requestTimestamps, cache, calls, bgProbes, admissions>>

\* setInterval callback of startHealthCheckLoop: starts a probe
HealthCheckInterval ==
  /\ now >= nextHealthCheck
  /\ nextHealthCheck' = nextHealthCheck + healthCheckInterval
  /\ bgProbes' = bgProbes + 1
  /\ returned' = NoReturn
  /\ UNCHANGED <<now, config, aside, health, activeRequests, totalRequests, totalErrors,
                 requestTimestamps, cache, calls, admissions>>

\* a probe of the health-check loop settles
BackgroundProbeDone(ok) ==
  /\ bgProbes > 0
  /\ bgProbes' = bgProbes - 1
  /\ isHealthy' = ProbeHealthy(ok)
  /\ lastHealthCheck' = ProbeLastCheck(ok, lastHealthCheck, now)
  /\ probed' = ProbeOutcome(ok)
  /\ probedAt' = now
  /\ returned' = NoReturn
  /\ UNCHANGED <<now, config, aside, activeRequests, totalRequests, totalErrors,
                 requestTimestamps, cache, calls, nextHealthCheck, admissions>>

\* (mutant) the decrement of line 189 is lost
Release_Leaks(active) == active

\* the finally block of line 189
Release(active) == active - 1

\* lines 157-172 and the finally of line 189: the attempt's response validates
AttemptSucceeds(r, choices) ==
  /\ r.pc = "running"
  /\ now - r.attemptAt <= timeout
  /\ cache' = IF CacheWanted(r.key)
                THEN CacheSet(cache, r.key, ResultOf(choices), now) ELSE cache
  /\ returned' = SettledWith(r.key, ResultOf(choices), r.attempts, choices)
  /\ calls' = calls (-) One(r)
  /\ activeRequests' = Release(activeRequests)
  /\ UNCHANGED <<now, config, aside, health, totalRequests, totalErrors,
                 requestTimestamps, bgProbes, nextHealthCheck, admissions>>

\* (mutant) one retry too few
RetriesLeft_Short(attempts) == attempts < maxRetries

\* line 145: pRetry retries while fewer than retries + 1 attempts were made
RetriesLeft(attempts) == attempts <= maxRetries

\* (mutant) the catch block rethrows a time-out as it does any other error
Surfaced_Rethrown(kind) ==
  IF kind = "invalid" THEN "InvalidResponse" ELSE "RemoteError"

\* lines 183-187: what the catch block throws for the last attempt's failure
Surfaced(kind) ==
  IF kind = "timeout" THEN "Timeout"
  ELSE IF kind = "error" THEN "RemoteError"
  ELSE "InvalidResponse"

\* (mutant) a response that fails the schema is not retried: the call fails
\* at once
AttemptFails_InvalidNotRetried(r, kind) ==
  /\ r.pc = "running"
  /\ IF kind = "timeout" THEN now - r.attemptAt >= timeout
                         ELSE now - r.attemptAt <= timeout
  /\ IF RetriesLeft(r.attempts) /\ kind # "invalid"
       THEN /\ calls' = (calls (-) One(r)) (+) One(Waiting(r.key, r.attempts))
            /\ returned' = NoReturn
            /\ UNCHANGED <<activeRequests, totalErrors>>
       ELSE /\ totalErrors' = totalErrors + 1
            /\ activeRequests' = Release(activeRequests)
            /\ returned' = Settled(r.key, Surfaced(kind), Undefined, kind, r.attempts)
            /\ calls' = calls (-) One(r)
  /\ UNCHANGED <<now, config, aside, health, totalRequests, requestTimestamps, cache,
                 bgProbes, nextHealthCheck, admissions>>

\* (mutant) the finally of line 189 does not run when the call fails
AttemptFails_KeepsSlot(r, kind) ==
  /\ r.pc = "running"
  /\ IF kind = "timeout" THEN now - r.attemptAt >= timeout
                         ELSE now - r.attemptAt <= timeout
  /\ IF RetriesLeft(r.attempts)
       THEN /\ calls' = (calls (-) One(r)) (+) One(Waiting(r.key, r.attempts))
            /\ returned' = NoReturn
            /\ UNCHANGED <<activeRequests, totalErrors>>
       ELSE /\ totalErrors' = totalErrors + 1
            /\ returned' = Settled(r.key, Surfaced(kind), Undefined, kind, r.attempts)
            /\ calls' = calls (-) One(r)
            /\ UNCHANGED activeRequests
  /\ UNCHANGED <<now, config, aside, health, totalRequests, requestTimestamps, cache,
                 bgProbes, nextHealthCheck, admissions>>

\* (mutant) totalErrors++ moved into onFailedAttempt: every failed attempt
\* counts as an error, the final one twice over
AttemptFails_CountsAttempts(r, kind) ==
  /\ r.pc = "running"
  /\ IF kind = "timeout" THEN now - r.attemptAt >= timeout
                         ELSE now - r.attemptAt <= timeout
  /\ totalErrors' = totalErrors + 1
  /\ IF RetriesLeft(r.attempts)
       THEN /\ calls' = (calls (-) One(r)) (+) One(Waiting(r.key, r.attempts))
            /\ returned' = NoReturn
            /\ UNCHANGED activeRequests
       ELSE /\ activeRequests' = Release(activeRequests)
            /\ returned' = Settled(r.key, Surfaced(kind), Undefined, kind, r.attempts)
            /\ calls' = calls (-) One(r)
  /\ UNCHANGED <<now, config, aside, health, totalRequests, requestTimestamps, cache,
                 bgProbes, nextHealthCheck, admissions>>

\* (mutant) a call that has used up its attempts marks the endpoint unhealthy
AttemptFails_MarksUnhealthy(r, kind) ==
  /\ r.pc = "running"
  /\ IF kind = "timeout" THEN now - r.attemptAt >= timeout
                         ELSE now - r.attemptAt <= timeout
  /\ IF RetriesLeft(r.attempts)
       THEN /\ calls' = (calls (-) One(r)) (+) One(Waiting(r.key, r.attempts))
            /\ returned' = NoReturn
            /\ UNCHANGED <<activeRequests, totalErrors, health>>
       ELSE /\ totalErrors' = totalErrors + 1
            /\ activeRequests' = Release(activeRequests)
            /\ returned' = Settled(r.key, Surfaced(kind), Undefined, kind, r.attempts)
            /\ calls' = calls (-) One(r)
            /\ isHealthy' = FALSE
            /\ UNCHANGED <<lastHealthCheck, probed, probedAt>>
  /\ UNCHANGED <<now, config, aside, totalRequests, requestTimestamps, cache,
                 bgProbes, nextHealthCheck, admissions>>

\* an attempt rejects: timeout (pTimeout), endpoint error, or schema mismatch
AttemptFails(r, kind) ==
  /\ r.pc = "running"
  /\ IF kind = "timeout" THEN now - r.attemptAt >= timeout
                         ELSE now - r.attemptAt <= timeout
  /\ IF RetriesLeft(r.attempts)
       THEN /\ calls' = (calls (-) One(r)) (+) One(Waiting(r.key, r.attempts))
            /\ returned' = NoReturn
            /\ UNCHANGED <<activeRequests, totalErrors>>
       ELSE /\ totalErrors' = totalErrors + 1
            /\ activeRequests' = Release(activeRequests)
            /\ returned' = Settled(r.key, Surfaced(kind), Undefined, kind, r.attempts)
            /\ calls' = calls (-) One(r)
  /\ UNCHANGED <<now, config, aside, health, totalRequests, requestTimestamps, cache,
                 bgProbes, nextHealthCheck, admissions>>

\* pRetry's back-off timer fires: the next attempt is issued
RetryFires(r) ==
  /\ r.pc = "waiting"
  /\ calls' = (calls (-) One(r)) (+) One(Running(r.key, r.attempts + 1, now))
  /\ returned' = NoReturn
  /\ UNCHANGED <<now, config, aside, health, activeRequests, totalRequests, totalErrors,
                 requestTimestamps, cache, bgProbes, nextHealthCheck, admissions>>

\* The clock advances.  Timers that are due fire first: probes and back-offs
\* end within the instant, an attempt at its timeout, the interval at its date.
TickUntil(end) ==
  /\ now < end
  /\ bgProbes = 0
  /\ now < nextHealthCheck
  /\ \A r \in BagToSet(calls) :
        /\ r.pc \notin {"probing", "waiting"}
        /\ r.pc = "running" => now - r.attemptAt < timeout
  /\ now' = now + TickMs
  /\ admissions' = SelectSeq(admissions, LAMBDA x : now' - x < OneMinute)
  /\ returned' = NoReturn
  /\ UNCHANGED <<config, aside, health, activeRequests, totalRequests, totalErrors,
                 requestTimestamps, cache, calls, bgProbes, nextHealthCheck>>

Tick == TickUntil(EndTime)

\* the client driven directly through complete(): the server stands by
Next ==
  \/ \E k \in keysInUse : Complete(k) /\ UNCHANGED server
  \/ \E r \in BagToSet(calls), ok \in BOOLEAN : CheckHealthDone(r, ok) /\ UNCHANGED server
  \/ HealthCheckInterval /\ UNCHANGED server
  \/ \E ok \in BOOLEAN : BackgroundProbeDone(ok) /\ UNCHANGED server
  \/ \E r \in BagToSet(calls), choices \in Responses :
        AttemptSucceeds(r, choices) /\ UNCHANGED server
  \/ \E r \in BagToSet(calls), kind \in FailKinds : AttemptFails(r, kind) /\ UNCHANGED server
  \/ \E r \in BagToSet(calls) : RetryFires(r) /\ UNCHANGED server
  \/ Tick /\ UNCHANGED server

Spec == Init /\ [][Next]_vars

(***************************************************************************)
(* The health-check loop alone (lines 37-69): no complete() call is made.  *)
(* The endpoint goes down and comes up, and a probe succeeds exactly when  *)
(* the endpoint is up as it settles.  The clock of this specification runs *)
(* to HealEndTime; the endpoint changes only while a firing of the         *)
(* interval lies ahead within that time.                                   *)
(***************************************************************************)
HealEndTime == StartTime + MaxIntervals * healthCheckInterval

\* lines 38-40: the callback the interval runs
LoopProbeStarts == HealthCheckInterval

\* the probe of the loop settles: models.list() resolves if the endpoint is up
LoopProbeDone == BackgroundProbeDone(endpoint = "up")

HealTick == TickUntil(HealEndTime)

FiringAhead == nextHealthCheck <= HealEndTime

EndpointRecovers ==
  /\ endpoint = "down"
  /\ FiringAhead
  /\ endpoint' = "up"
  /\ UNCHANGED <<clientKept_NoAside, returned, server, shutdownCalled, lastCall, prevCall, retry>>

EndpointFails ==
  /\ endpoint = "up"
  /\ FiringAhead
  /\ endpoint' = "down"
  /\ UNCHANGED <<clientKept_NoAside, returned, server, shutdownCalled, lastCall, prevCall, retry>>

HealInit ==
  /\ rateLimitEnabled = TRUE
  /\ cacheEnabled = TRUE
  /\ keysInUse = {"k1", NoKey}
  /\ Constructed
  /\ ServerConstructed
  /\ RetryDefaults
  /\ endpoint \in {"down", "up"}

HealNext ==
  \/ LoopProbeStarts /\ UNCHANGED server
  \/ LoopProbeDone /\ UNCHANGED server
  \/ HealTick /\ UNCHANGED server
  \/ EndpointRecovers
  \/ EndpointFails

\* the interval keeps firing, a probe settles (within its 5 s pTimeout at the
\* latest), time passes
HealSpec ==
  /\ HealInit
  /\ [][HealNext]_vars
  /\ WF_vars(LoopProbeStarts /\ UNCHANGED server)
  /\ WF_vars(LoopProbeDone /\ UNCHANGED server)
  /\ WF_vars(HealTick /\ UNCHANGED server)

\* getMetrics(), lines 241-252: a snapshot of the counters; errorRate as the
\* pair <<errors, requests>> whose quotient it is (0 before the first request)
getMetrics ==
  [isHealthy |-> isHealthy,
   lastHealthCheck |-> lastHealthCheck,
   activeRequests |-> activeRequests,
   totalRequests |-> totalRequests,
   totalErrors |-> totalErrors,
   errorRate |-> IF totalRequests > 0 THEN <<totalErrors, totalRequests>> ELSE <<0, 1>>,
   cacheSize |-> Cardinality({k \in Keys : cache[k] # <<>>}),
   requestsPerMinute |-> Len(requestTimestamps)]

\* a caller reads the metrics: the snapshot is computed, no field is written
GetMetrics ==
  /\ getMetrics.totalRequests >= 0
  /\ returned' = NoReturn
  /\ UNCHANGED clientKept

\* the client driven through complete() and getMetrics()
MetricsNext ==
  \/ Next
  \/ GetMetrics /\ UNCHANGED server

MetricsSpec == Init /\ [][MetricsNext]_vars

(***************************************************************************)
(* The client with the rate limit enabled or disabled                      *)
(* (config.rateLimit.enabled).  With the limit disabled nothing bounds the *)
(* calls that pass enforceRateLimit(): here at most MaxAdmissions of them  *)
(* fall within one minute.                                                 *)
(***************************************************************************)
MaxAdmissions == maxRequestsPerMinute + 1

GateArrival(k) == Len(admissions) < MaxAdmissions /\ Complete(k)

GateInit ==
  /\ rateLimitEnabled \in BOOLEAN
  /\ cacheEnabled = TRUE
  /\ keysInUse = {"k1", NoKey}
  /\ Constructed
  /\ ServerConstructed
  /\ AnyEndpoint
  /\ RetryDefaults

GateNext ==
  \/ \E k \in keysInUse : GateArrival(k) /\ UNCHANGED server
  \/ \E r \in BagToSet(calls), ok \in BOOLEAN : CheckHealthDone(r, ok) /\ UNCHANGED server
  \/ HealthCheckInterval /\ UNCHANGED server
  \/ \E ok \in BOOLEAN : BackgroundProbeDone(ok) /\ UNCHANGED server
  \/ \E r \in BagToSet(calls), choices \in Responses :
        AttemptSucceeds(r, choices) /\ UNCHANGED server
  \/ \E r \in BagToSet(calls), kind \in FailKinds : AttemptFails(r, kind) /\ UNCHANGED server
  \/ \E r \in BagToSet(calls) : RetryFires(r) /\ UNCHANGED server
  \/ Tick /\ UNCHANGED server

GateSpec == GateInit /\ [][GateNext]_vars

(***************************************************************************)
(* The client until it is quiet: calls arrive up to EndTime and the clock  *)
(* runs on for as long as a call dispatched last can take, maxRetries + 1  *)
(* attempts of at most `timeout` each.  The endpoint answers or not as it  *)
(* likes; what is sure to happen is what the timers of the process do: the *)
(* pTimeout of an attempt (line 137) and of a probe (line 51), pRetry's    *)
(* back-off, the interval, and the passing of time.                        *)
(***************************************************************************)
QuietEndTime == EndTime + (maxRetries + 1) * TickMs

\* a call arrives
Arrival(k) == now <= EndTime /\ Complete(k)

\* the pTimeout of line 137 fires for an attempt
AttemptTimesOut(r) == AttemptFails(r, "timeout")

\* a probe settles, at the latest when its 5 s pTimeout fires
ReprobeSettles(r, ok) == CheckHealthDone(r, ok)
LoopProbeSettles(ok) == BackgroundProbeDone(ok)

QuietTick == TickUntil(QuietEndTime)

QuietNext ==
  \/ \E k \in keysInUse : Arrival(k) /\ UNCHANGED server
  \/ \E r \in BagToSet(calls), ok \in BOOLEAN : ReprobeSettles(r, ok) /\ UNCHANGED server
  \/ HealthCheckInterval /\ UNCHANGED server
  \/ \E ok \in BOOLEAN : LoopProbeSettles(ok) /\ UNCHANGED server
  \/ \E r \in BagToSet(calls), choices \in Responses :
        AttemptSucceeds(r, choices) /\ UNCHANGED server
  \/ \E r \in BagToSet(calls), kind \in FailKinds \ {"timeout"} :
        AttemptFails(r, kind) /\ UNCHANGED server
  \/ \E r \in BagToSet(calls) : AttemptTimesOut(r) /\ UNCHANGED server
  \/ \E r \in BagToSet(calls) : RetryFires(r) /\ UNCHANGED server
  \/ QuietTick /\ UNCHANGED server

QuietSpec ==
  /\ Init
  /\ [][QuietNext]_vars
  /\ WF_vars(\E r \in BagToSet(calls) : AttemptTimesOut(r) /\ UNCHANGED server)
  /\ WF_vars(\E r \in BagToSet(calls) : RetryFires(r) /\ UNCHANGED server)
  /\ WF_vars(\E r \in BagToSet(calls), ok \in BOOLEAN : ReprobeSettles(r, ok) /\ UNCHANGED server)
  /\ WF_vars(\E ok \in BOOLEAN : LoopProbeSettles(ok) /\ UNCHANGED server)
  /\ WF_vars(HealthCheckInterval /\ UNCHANGED server)
  /\ WF_vars(QuietTick /\ UNCHANGED server)

\* the cache enabled or not (config.cache.enabled), the rate limit enabled,
\* and tools that pass either of two keys or none
CacheInit ==
  /\ rateLimitEnabled = TRUE
  /\ cacheEnabled \in BOOLEAN
  /\ keysInUse = Keys \cup {NoKey}
  /\ Constructed
  /\ ServerConstructed
  /\ AnyEndpoint
  /\ RetryDefaults

CacheSpec == CacheInit /\ [][Next]_vars

\* shutdown(), lines 254-258: flushAll() empties the cache, close() stops
\* the cache's own expiry sweep; no field of the client is written and the
\* interval of startHealthCheckLoop is not cleared
ClientShutdown ==
  /\ shutdownCalled' = TRUE
  /\ cache' = [k \in Keys |-> <<>>]
  /\ returned' = NoReturn
  /\ UNCHANGED <<now, config, health, activeRequests, totalRequests, totalErrors,
                 requestTimestamps, calls, bgProbes, nextHealthCheck, admissions,
                 lastCall, prevCall, retry, endpoint>>

\* the client driven through complete() and shutdown()
ShutdownNext ==
  \/ Next
  \/ ClientShutdown /\ UNCHANGED server

ShutdownSpec == Init /\ [][ShutdownNext]_vars

(***************************************************************************)
(* The process_markdown handler (src/unnamed/part_002:477-585): the prompt *)
(* it builds and the cache key it passes to complete().  Its arguments are *)
(* those ProcessMarkdownSchema has validated; content stands for the       *)
(* sanitized text, given directly or read from filePath.                   *)
(***************************************************************************)

\* the validated arguments: Undefined for an optional one that is absent
ActionArgs == {Undefined, "streamline", "technical"}
FormatArgs == {Undefined, "markdown", "html"}
SectionsArgs == {Undefined, "Setup"}
MaxLengthArgs == {0, 1000, 2000}       \* 0: absent, or the falsy 0 itself
ContentArgs == {"# A", "# B"}

ProcessMarkdownArgs ==
  [action : ActionArgs, format : FormatArgs, sections : SectionsArgs,
   maxLength : MaxLengthArgs, content : ContentArgs]

\* lines 496-498: x || fallback, for a string and for a number
OrDefault(x, fallback) == IF x = Undefined THEN fallback ELSE x
OrDefaultNumber(x, fallback) == IF x = 0 THEN fallback ELSE x

\* sha256 digest: distinct inputs have distinct digests
Sha256(x) == <<"sha256", x>>

\* lines 123-128: the digest of the tool name followed by JSON.stringify(args)
generateCacheKey(toolName, args) == Sha256(<<toolName, args>>)

\* lines 500-561: the text of the prompt, part by part
ProcessMarkdownPrompt(a) ==
  [actionPrompt |-> OrDefault(a.action, "streamline"),
   sectionsFilter |-> a.sections,
   maxLength |-> OrDefaultNumber(a.maxLength, 2000),
   formatInstructions |-> OrDefault(a.format, "markdown"),
   documentation |-> a.content]

\* lines 563-568
ProcessMarkdownKey(a) ==
  generateCacheKey("process_markdown",
    [action |-> OrDefault(a.action, "streamline"),
     format |-> OrDefault(a.format, "markdown"),
     sections |-> a.sections,
     contentHash |-> Sha256(a.content)])

\* a process_markdown call comes to its client.complete(prompt, {cacheKey})
ProcessMarkdown(a) ==
  /\ prevCall' = lastCall
  /\ lastCall' = [made |-> TRUE, args |-> a, prompt |-> ProcessMarkdownPrompt(a),
                   key |-> ProcessMarkdownKey(a)]
  /\ UNCHANGED <<clientKept_NoAside, returned, server, shutdownCalled, retry, endpoint>>

ToolsNext == \E a \in ProcessMarkdownArgs : ProcessMarkdown(a)

ToolsSpec == Init /\ [][ToolsNext]_vars

(***************************************************************************)
(* One pRetry run of complete() (lines 127-155) with its delays.  pRetry   *)
(* is given retries, minTimeout = retryDelay and maxTimeout = 3 *          *)
(* retryDelay; its factor (2) and randomize (false) are p-retry's defaults.*)
(***************************************************************************)

\* the values of RETRY_DELAY tried, in ms
RetryDelays == {1, 250, 1000, 1500, 4000}

Min(a, b) == IF a <= b THEN a ELSE b

\* (mutant) no maxTimeout
Backoff_Uncapped(minTimeout, maxTimeout, k) == minTimeout * 2 ^ (k - 1)

\* the delay pRetry waits after failed attempt k: minTimeout * factor^(k-1),
\* at most maxTimeout
Backoff(minTimeout, maxTimeout, k) == Min(minTimeout * 2 ^ (k - 1), maxTimeout)

\* the attempt in flight rejects: pRetry waits and retries, or gives up
RetryAttemptFails ==
  /\ retryRun.phase = "attempt"
  /\ retryRun' =
       IF retryRun.attemptNumber <= retryLimit
         THEN [retryRun EXCEPT
                 !.phase = "sleep",
                 !.delays = Append(@, Backoff(retryDelay, retryDelay * 3,
                                              retryRun.attemptNumber))]
         ELSE [retryRun EXCEPT !.phase = "failed"]
  /\ UNCHANGED <<clientKept_NoAside, returned, server, shutdownCalled, lastCall, prevCall,
                 endpoint,
                 retryDelay, retryLimit>>

\* the delay is over: the next attempt starts
RetrySleepEnds ==
  /\ retryRun.phase = "sleep"
  /\ retryRun' = [retryRun EXCEPT !.phase = "attempt", !.attemptNumber = @ + 1]
  /\ UNCHANGED <<clientKept_NoAside, returned, server, shutdownCalled, lastCall, prevCall,
                 endpoint,
                 retryDelay, retryLimit>>

\* the attempt in flight resolves
RetryAttemptSucceeds ==
  /\ retryRun.phase = "attempt"
  /\ retryRun' = [retryRun EXCEPT !.phase = "done"]
  /\ UNCHANGED <<clientKept_NoAside, returned, server, shutdownCalled, lastCall, prevCall,
                 endpoint,
                 retryDelay, retryLimit>>

RetryInit ==
  /\ rateLimitEnabled = TRUE
  /\ cacheEnabled = TRUE
  /\ keysInUse = {"k1", NoKey}
  /\ Constructed
  /\ ServerConstructed
  /\ AnyEndpoint
  /\ retryDelay \in RetryDelays
  /\ retryLimit \in 1..MaxBackoffs
  /\ retryRun = FirstAttempt

RetryNext ==
  \/ RetryAttemptFails
  \/ RetrySleepEnds
  \/ RetryAttemptSucceeds

RetrySpec == RetryInit /\ [][RetryNext]_vars

(***************************************************************************)
(* The server (src/src/index.ts): the tool-call handler around the client, *)
(* and gracefulShutdown.  A handler runs from the request to its first     *)
(* await; it resumes in the microtask chain of the promise it awaited, so  *)
(* its resumption belongs to the client step that settles complete().      *)
(* The whole shutdown (at most gracefulShutdownTimeout) lies within one    *)
(* instant of the client's clock; polls counts its seconds.                *)
(***************************************************************************)

\* what a tools/call request turns out to be: a name getToolByName does not
\* know, arguments the tool's schema rejects, a tool that calls complete() at
\* once, a markdown tool that first reads the file of filePath
RequestKinds == {"unknown", "invalid", "inline", "file"}

\* lines 111-116 and 118-132: the handler's result for what complete() gave
ReplyOf(ret) ==
  IF ret.outcome \in {"ok", "cached"} THEN [isError |-> FALSE, text |-> ret.result]
  ELSE [isError |-> TRUE, text |-> ret.outcome]

\* lines 80-86 and 126-132: an error result
Refused(why) == [isError |-> TRUE, text |-> why]

\* (mutant) the handler does not look at the flag
RejectsNewCalls_Never(flag) == FALSE

\* line 58
RejectsNewCalls(flag) == flag

\* (mutant) the finally block does not delete the request id
DeleteRequestId_Leaks(size) == size

\* line 134: the set without this handler's request id
DeleteRequestId(size) == size - 1

\* (mutant) tool.handler(...) is not awaited: the finally of line 134 deletes
\* the id as soon as the handler has called complete()
HandlerAfter_NotAwaited(entering) ==
  /\ reply' = IF returned' = NoReturn THEN NoReply ELSE ReplyOf(returned')
  /\ serverActive' = serverActive

\* lines 54 and 97-135 around a step of the client: the handler stays
\* suspended in `await tool.handler(...)` or returns what complete() gave
HandlerAfter(entering) ==
  IF returned' = NoReturn
    THEN /\ reply' = NoReply
         /\ serverActive' = IF entering THEN serverActive + 1 ELSE serverActive
    ELSE /\ reply' = ReplyOf(returned')
         /\ serverActive' = DeleteRequestId(IF entering THEN serverActive + 1 ELSE serverActive)

\* the CallToolRequestSchema handler, lines 52-136, from the request to its
\* first await or its return
CallTool(kind, k) ==
  /\ exited = "no"
  /\ IF RejectsNewCalls(isShuttingDown) \/ kind \in {"unknown", "invalid"}
       THEN /\ reply' = Refused(IF RejectsNewCalls(isShuttingDown) THEN "ShuttingDown"
                                ELSE IF kind = "unknown" THEN "UnknownTool"
                                ELSE "Validation")
            /\ serverActive' = DeleteRequestId(serverActive + 1)
            /\ returned' = NoReturn
            /\ UNCHANGED <<clientKept, reading>>
     ELSE IF kind = "file"
       THEN /\ serverActive < MaxInFlight
            /\ reading' = reading + 1
            /\ serverActive' = serverActive + 1
            /\ reply' = NoReply
            /\ returned' = NoReturn
            /\ UNCHANGED clientKept
     ELSE /\ serverActive < MaxInFlight
          /\ Complete(k)
          /\ HandlerAfter(TRUE)
          /\ UNCHANGED reading
  /\ UNCHANGED shutdown

\* fs.readFile of a markdown tool settles: the tool throws, or builds the
\* prompt and the cache key from the content and calls complete()
ReadFileDone(ok, k) ==
  /\ exited = "no"
  /\ reading > 0
  /\ reading' = reading - 1
  /\ IF ok THEN Complete(k) /\ HandlerAfter(FALSE)
           ELSE /\ reply' = Refused("Validation")
                /\ serverActive' = DeleteRequestId(serverActive)
                /\ returned' = NoReturn
                /\ UNCHANGED clientKept
  /\ UNCHANGED shutdown

\* a step of the client under the server: a handler awaiting complete() resumes
Resumed == exited = "no" /\ HandlerAfter(FALSE) /\ UNCHANGED <<shutdown, reading>>

\* a step of the client that no handler awaits
Standby == exited = "no" /\ reply' = NoReply /\ UNCHANGED <<shutdown, serverActive, reading>>

\* (mutant) the drain loop does not look at the set
Drained_Always(size) == TRUE

\* line 151: the drain loop's test
Drained(size) == size = 0

\* lines 156-163: what the drain loop does after its test
AfterDrainTest(size) == IF Drained(size) THEN "graceful" ELSE "no"

\* when the sleep of the drain loop that follows p ended sleeps is over
NextPollAt(p) == (p + 1) * PollMs

\* (mutant) no grace timer
GraceTimerDue_Never(p) == FALSE

\* lines 145-148: the grace timer, set at the signal, is due before the next
\* sleep of the drain loop ends, or together with it
GraceTimerDue(p) == NextPollAt(p) >= gracefulShutdownTimeout

\* SIGINT or SIGTERM: gracefulShutdown, lines 140-154, to its first await (a
\* later signal starts a further drain loop, see LaterDrainPoll)
Signal ==
  /\ exited = "no"
  /\ signals' = IF signals = 0 THEN 1 ELSE 2
  /\ isShuttingDown' = TRUE
  /\ exited' = AfterDrainTest(serverActive)
  /\ reply' = NoReply
  /\ returned' = NoReturn
  /\ UNCHANGED <<clientKept, serverActive, reading, polls>>

\* the 1 s sleep of the first drain loop ends (line 153) and the loop tests
\* the set again; the sleep that ends when the grace timer is due may run
\* before or after it
DrainPoll ==
  /\ exited = "no"
  /\ isShuttingDown
  /\ NextPollAt(polls) <= gracefulShutdownTimeout
  /\ polls' = polls + 1
  /\ exited' = AfterDrainTest(serverActive)
  /\ reply' = NoReply
  /\ returned' = NoReturn
  /\ UNCHANGED <<clientKept, serverActive, reading, isShuttingDown, signals>>

\* the drain loop of a later signal tests the set, at its own seconds; it
\* matters only when it finds the set empty (its grace timer is due after
\* the first one)
LaterDrainPoll ==
  /\ exited = "no"
  /\ signals > 1
  /\ Drained(serverActive)
  /\ exited' = AfterDrainTest(serverActive)
  /\ reply' = NoReply
  /\ returned' = NoReturn
  /\ UNCHANGED <<clientKept, serverActive, reading, isShuttingDown, signals, polls>>

\* lines 145-148: the grace timer of the first signal fires
ShutdownTimeout ==
  /\ exited = "no"
  /\ isShuttingDown
  /\ GraceTimerDue(polls)
  /\ exited' = "forced"
  /\ reply' = NoReply
  /\ returned' = NoReturn
  /\ UNCHANGED <<clientKept, serverActive, reading, isShuttingDown, signals, polls>>

\* the server is followed until the health-check loop has come round once
ServerEndTime == StartTime + healthCheckInterval

\* the clock advances: not while a file read is pending, nor during a
\* shutdown, which ends within gracefulShutdownTimeout
ServerTick == Tick /\ now < ServerEndTime /\ reading = 0 /\ ~isShuttingDown /\ Standby

ServerNext ==
  \/ \E kind \in RequestKinds, k \in keysInUse : CallTool(kind, k)
  \/ \E ok \in BOOLEAN, k \in keysInUse : ReadFileDone(ok, k)
  \/ \E r \in BagToSet(calls), ok \in BOOLEAN : CheckHealthDone(r, ok) /\ Resumed
  \/ HealthCheckInterval /\ Standby
  \/ \E ok \in BOOLEAN : BackgroundProbeDone(ok) /\ Standby
  \/ \E r \in BagToSet(calls), choices \in Responses : AttemptSucceeds(r, choices) /\ Resumed
  \/ \E r \in BagToSet(calls), kind \in FailKinds : AttemptFails(r, kind) /\ Resumed
  \/ \E r \in BagToSet(calls) : RetryFires(r) /\ Resumed
  \/ Signal
  \/ DrainPoll
  \/ LaterDrainPoll
  \/ ShutdownTimeout
  \/ ServerTick

\* the server with the cache switched off (CACHE_ENABLED=false)
ServerInit ==
  /\ rateLimitEnabled = TRUE
  /\ cacheEnabled = FALSE
  /\ keysInUse = {NoKey}
  /\ Constructed
  /\ ServerConstructed
  /\ AnyEndpoint
  /\ RetryDefaults

\* timers that are due fire: the sleep of the drain loop, the grace timer
ServerSpec ==
  ServerInit /\ [][ServerNext]_vars /\ WF_vars(DrainPoll) /\ WF_vars(ShutdownTimeout)

(***************************************************************************)
(* What a step shows of the call it is about.                              *)
(***************************************************************************)

\* the suspended calls at one of the places pcs
Suspended(pcs) == {r \in BagToSet(calls) : r.pc \in pcs}

\* how many calls of cs are at one of the places pcs
CountAt(cs, pcs) ==
  BagCardinality([r \in {x \in BagToSet(cs) : x.pc \in pcs} |-> cs[r]])

\* the step is the entry of a complete() call: it suspends a new call, or it
\* returns or throws at once (every other step that settles a call removes it
\* from the suspended ones)
Arrived ==
  \/ BagCardinality(calls') = BagCardinality(calls) + 1
  \/ returned' # NoReturn /\ calls' = calls

\* the cache key of the call that entered
ArrivedKey ==
  IF calls' = calls THEN returned'.key
  ELSE (CHOOSE r \in BagToSet(calls') : CopiesIn(r, calls') > CopiesIn(r, calls)).key

\* the step issued the first completion request of some call
DispatchedNow ==
  \E k \in Keys \cup {NoKey} :
    CopiesIn(Running(k, 1, now'), calls') > CopiesIn(Running(k, 1, now'), calls)

\* the entering call passed enforceRateLimit
PassedGate == Arrived /\ Len(admissions') = Len(admissions) + 1

\* a call came to line 118: on entry without a re-probe, or when its re-probe settled
ReachedHealthGate ==
  \/ PassedGate /\ CountAt(calls', {"probing"}) = CountAt(calls, {"probing"})
  \/ CountAt(calls', {"probing"}) < CountAt(calls, {"probing"})

\* the recorded timestamps younger than 60 s
LiveTimestamps ==
  Cardinality({i \in DOMAIN requestTimestamps : now - requestTimestamps[i] < OneMinute})

\* key k has an entry whose TTL has not elapsed
LiveEntry(k) == cache[k] # <<>> /\ cache[k][2] >= now

Failures == {"Timeout", "RemoteError", "InvalidResponse"}

(***************************************************************************)
(* C1  With rate limiting enabled, activeRequests never exceeds            *)
(*     maxConcurrent, whatever the interleaving of complete() calls and    *)
(*     health probes (calls suspended on a re-probe included).             *)
(*     The code breaks it: calls that pass enforceRateLimit and then wait  *)
(*     for a re-probe are not counted, so any number of them is admitted.  *)
(***************************************************************************)
C1_ActiveWithinBound == rateLimitEnabled => activeRequests <= maxConcurrent

(***************************************************************************)
(* C2  (as claimed) With a healthy endpoint, an uncached call arriving     *)
(*     while fewer than maxConcurrent calls are in flight is admitted, and *)
(*     every uncached call arriving while exactly maxConcurrent are in     *)
(*     flight is rejected with 'Too many concurrent requests'.             *)
(*     The rate check runs first: with the window full the call is         *)
(*     rejected with 'Rate limit exceeded' in both cases.                  *)
(***************************************************************************)
C2_AsClaimed ==
  [][ (rateLimitEnabled /\ isHealthy /\ Arrived /\ returned'.outcome # "cached") =>
        /\ activeRequests < maxConcurrent =>
             (DispatchedNow /\ activeRequests' = activeRequests + 1)
        /\ activeRequests = maxConcurrent => returned'.outcome = "TooMany" ]_vars

(***************************************************************************)
(* C2  (amended) With a healthy endpoint and fewer than                    *)
(*     maxRequestsPerMinute admissions in the trailing 60 s: an uncached   *)
(*     call arriving while fewer than maxConcurrent calls are in flight is *)
(*     admitted and dispatched; one arriving while exactly maxConcurrent   *)
(*     are in flight is rejected with 'Too many concurrent requests' and   *)
(*     changes neither the count nor the window's length.  So once one of  *)
(*     the maxConcurrent calls has terminated, the next uncached call is   *)
(*     admitted, rate limit permitting.                                    *)
(***************************************************************************)
C2_ConcurrencyGate ==
  [][ (rateLimitEnabled /\ isHealthy /\ Arrived /\ returned'.outcome # "cached"
         /\ Len(admissions) < maxRequestsPerMinute) =>
        /\ activeRequests < maxConcurrent =>
             /\ DispatchedNow
             /\ activeRequests' = activeRequests + 1
             /\ returned' = NoReturn
        /\ activeRequests = maxConcurrent =>
             /\ returned'.outcome = "TooMany"
             /\ ~DispatchedNow
             /\ activeRequests' = activeRequests
             /\ admissions' = admissions ]_vars

\* a call has just been rejected for concurrency while maxConcurrent are in flight
C2_Witness ==
  /\ isHealthy
  /\ returned.outcome = "TooMany"
  /\ activeRequests = maxConcurrent
  /\ Len(admissions) < maxRequestsPerMinute

(***************************************************************************)
(* C3  At most maxRequestsPerMinute calls pass the admission gate within   *)
(*     any rolling 60-second window; a call reaching the gate while that   *)
(*     many recorded timestamps are younger than 60 s is rejected with     *)
(*     'Rate limit exceeded'; once enough of them have aged past 60 s a    *)
(*     call is admitted again, concurrency permitting.                     *)
(***************************************************************************)
C3_RateWindow ==
  [][ /\ rateLimitEnabled => Len(admissions') <= maxRequestsPerMinute
      /\ (rateLimitEnabled /\ Arrived /\ returned'.outcome # "cached") =>
           /\ LiveTimestamps >= maxRequestsPerMinute =>
                /\ returned'.outcome = "RateLimit"
                /\ admissions' = admissions
           /\ (LiveTimestamps < maxRequestsPerMinute /\ activeRequests < maxConcurrent) =>
                /\ PassedGate
                /\ returned'.outcome \notin {"RateLimit", "TooMany"} ]_vars

\* the window is full of admissions and a call has just been turned away
C3_Witness ==
  /\ returned.outcome = "RateLimit"
  /\ Len(admissions) = maxRequestsPerMinute

(***************************************************************************)
(* C4  activeRequests is never negative and always equals the number of    *)
(*     calls between dispatch and termination (every call that increments  *)
(*     it decrements it exactly once, on success, failure or timeout); it  *)
(*     is 0 whenever no call is in flight.                                 *)
(***************************************************************************)
C4_ActiveCountExact ==
  /\ activeRequests >= 0
  /\ activeRequests = CountAt(calls, {"running", "waiting"})
  /\ (Suspended({"running", "waiting"}) = {} => activeRequests = 0)

\* a dispatched call has ended in a timeout and the count is back to 0
C4_Witness ==
  /\ returned.outcome = "Timeout"
  /\ returned.attempts > 0
  /\ activeRequests = 0

(***************************************************************************)
(* C5  With caching enabled, two complete() calls that carry the same      *)
(*     cache key within the TTL cause at most one remote completion call:  *)
(*     no call is dispatched while another call with its key is in flight  *)
(*     or while the entry an earlier one stored is live, and in the latter *)
(*     case it is served from the cache.                                   *)
(*     The code looks only at stored, truthy entries: it neither waits for *)
(*     a call in flight nor recognises a stored empty result.              *)
(***************************************************************************)
C5_AtMostOneRemoteCall ==
  [][ \A k \in Keys :
        /\ (cacheEnabled
              /\ CopiesIn(Running(k, 1, now'), calls') > CopiesIn(Running(k, 1, now'), calls)) =>
             /\ \A r \in Suspended({"running", "waiting"}) : r.key # k
             /\ ~LiveEntry(k)
        /\ (cacheEnabled /\ Arrived /\ ArrivedKey = k /\ LiveEntry(k)) =>
             returned'.outcome = "cached" ]_vars

(***************************************************************************)
(* C6  With caching enabled, complete() called with a cache key that has a *)
(*     live entry returns the cached value and increments totalRequests by *)
(*     one, and does nothing else: no admission check, no probe, no remote *)
(*     call; activeRequests, the rate window, totalErrors and the health   *)
(*     state are unchanged.                                                *)
(*     The code tests the entry's value for truthiness (line 103): a live  *)
(*     entry holding the empty string is treated as a miss (see C7).       *)
(***************************************************************************)
C6_CacheHitOnly ==
  [][ \A k \in Keys :
        (cacheEnabled /\ Arrived /\ ArrivedKey = k /\ LiveEntry(k)) =>
          /\ returned'.outcome = "cached"
          /\ returned'.result = cache[k][1]
          /\ returned'.attempts = 0
          /\ totalRequests' = totalRequests + 1
          /\ UNCHANGED <<activeRequests, requestTimestamps, totalErrors,
                         isHealthy, lastHealthCheck, calls, bgProbes>> ]_vars

(***************************************************************************)
(* C7  Cache round trip: for every result V, a complete() with key K that  *)
(*     succeeds with V stores V under K, a complete() with key K issued    *)
(*     next (before the TTL elapses) returns V from the cache, and one     *)
(*     issued after the TTL has elapsed finds K absent and is not served   *)
(*     from the cache.                                                     *)
(*     The code fails it for V = "": the result is stored (line 169) but   *)
(*     `if (cached)` (line 103) takes the empty string for a miss.         *)
(***************************************************************************)
C7_CacheRoundTrip ==
  [][ \A k \in Keys :
        /\ (cacheEnabled /\ returned'.outcome = "ok" /\ returned'.key = k) =>
             cache'[k] = <<returned'.result, now + ttl * 1000>>
        /\ (cacheEnabled /\ Arrived /\ ArrivedKey = k) =>
             /\ (returned.outcome = "ok" /\ returned.key = k) =>
                  (returned'.outcome = "cached" /\ returned'.result = returned.result)
             /\ (cache[k] # <<>> /\ cache[k][2] < now) =>
                  (returned'.outcome # "cached" /\ cache'[k] = <<>>) ]_vars

(***************************************************************************)
(* C8  A dispatched complete() call makes at least 1 and at most           *)
(*     maxRetries + 1 attempts and none after a successful one; a call     *)
(*     fails only after maxRetries + 1 failed attempts and then surfaces   *)
(*     the failure of the last one: an endpoint that always times out      *)
(*     gives exactly maxRetries + 1 attempts and then a Timeout failure.   *)
(***************************************************************************)
C8_RetryBound ==
  /\ \A r \in Suspended({"running", "waiting"}) :
        /\ r.attempts >= 1
        /\ r.attempts <= maxRetries + 1
        /\ r.pc = "waiting" => r.attempts <= maxRetries
  /\ returned.outcome = "ok" =>
        (returned.attempts >= 1 /\ returned.attempts <= maxRetries + 1)
  /\ returned.outcome \in Failures =>
        /\ returned.attempts = maxRetries + 1
        /\ returned.cause = "timeout" <=> returned.outcome = "Timeout"
        /\ returned.cause = "error" <=> returned.outcome = "RemoteError"
        /\ returned.cause = "invalid" <=> returned.outcome = "InvalidResponse"
  /\ returned.cause # "none" => returned.outcome \in Failures

\* the last of maxRetries + 1 attempts has timed out and Timeout is surfaced
C8_Witness ==
  /\ returned.outcome = "Timeout"
  /\ returned.cause = "timeout"
  /\ returned.attempts = maxRetries + 1

(***************************************************************************)
(* C9  Fail closed: a call on a cache miss that reaches the health gate    *)
(*     while the state is not healthy (the initial state included, and     *)
(*     after the re-probe it triggered) fails with 'LM Studio is not       *)
(*     responding' and issues no completion request; a first attempt is    *)
(*     issued only in a step that leaves the state healthy.                *)
(***************************************************************************)
C9_FailClosed ==
  [][ /\ DispatchedNow => isHealthy'
      /\ (ReachedHealthGate /\ ~isHealthy') =>
            /\ returned'.outcome = "Unavailable"
            /\ returned'.attempts = 0
            /\ ~DispatchedNow
            /\ activeRequests' = activeRequests
      /\ returned'.outcome = "Unavailable" => (~isHealthy' /\ returned'.attempts = 0) ]_vars

\* a call has just failed as unavailable
C9_Witness ==
  /\ returned.outcome = "Unavailable"
  /\ ~isHealthy
  /\ Len(admissions) > 0

(***************************************************************************)
(* C10 A call that passes admission while the state is unhealthy and stale *)
(*     (lastHealthCheck more than 10 s old) starts exactly one probe and   *)
(*     decides nothing yet; one that passes otherwise starts none.  When   *)
(*     that probe settles the call decides at once: dispatched if the      *)
(*     state is then healthy, failed as unavailable if not; it never       *)
(*     probes again.                                                       *)
(***************************************************************************)
C10_OneReprobe ==
  [][ /\ PassedGate =>
           IF ~isHealthy /\ now - lastHealthCheck > StaleAfter
             THEN /\ CountAt(calls', {"probing"}) = CountAt(calls, {"probing"}) + 1
                  /\ returned' = NoReturn
                  /\ ~DispatchedNow
             ELSE CountAt(calls', {"probing"}) = CountAt(calls, {"probing"})
      /\ CountAt(calls', {"probing"}) > CountAt(calls, {"probing"}) => PassedGate
      /\ CountAt(calls', {"probing"}) < CountAt(calls, {"probing"}) =>
           /\ CountAt(calls', {"probing"}) = CountAt(calls, {"probing"}) - 1
           /\ IF isHealthy'
                THEN DispatchedNow /\ activeRequests' = activeRequests + 1
                ELSE returned'.outcome = "Unavailable" /\ ~DispatchedNow ]_vars

\* a call is waiting for the re-probe it started
C10_Witness ==
  /\ ~isHealthy
  /\ CountAt(calls, {"probing"}) > 0

(***************************************************************************)
(* C11 Health transitions: when a probe settles (the loop's or a call's    *)
(*     re-probe) the health state becomes that probe's outcome, healthy    *)
(*     after a success and unhealthy after a failure or time-out, whatever *)
(*     it was before; nothing else changes the health state.               *)
(***************************************************************************)
C11_HealthFollowsProbe ==
  [][ IF bgProbes' < bgProbes \/ CountAt(calls', {"probing"}) < CountAt(calls, {"probing"})
        THEN /\ probed' \in {"ok", "failed"}
             /\ isHealthy' <=> probed' = "ok"
        ELSE UNCHANGED <<isHealthy, probed, probedAt>> ]_vars

\* a probe has failed after an earlier one had succeeded
C11_Witness ==
  /\ probed = "failed"
  /\ ~isHealthy
  /\ lastHealthCheck >= StartTime

(***************************************************************************)
(* What a step shows of the tool call it is about.                         *)
(***************************************************************************)

\* the step is the entry of a tool-call handler: the handler stays in the
\* active set, or it returns at once (a handler that returns on resuming
\* leaves the set)
ServerArrived ==
  \/ serverActive' > serverActive
  \/ reply' # NoReply /\ serverActive' = serverActive

(***************************************************************************)
(* C12 isShuttingDown is false until the first SIGINT/SIGTERM and is never *)
(*     reset.  Every tool call that arrives while it is true is answered   *)
(*     at once with the 'Server is shutting down' error and does not reach *)
(*     the client: no cache lookup, no admission, no probe, no remote      *)
(*     call, nothing of the client's state changes; no other call gets     *)
(*     that error.                                                         *)
(***************************************************************************)
C12_ShutdownFlag ==
  [][ /\ signals = 0 => ~isShuttingDown
      /\ isShuttingDown => isShuttingDown'
      /\ isShuttingDown' # isShuttingDown => signals' = 1
      /\ (ServerArrived /\ isShuttingDown) =>
            /\ reply' = Refused("ShuttingDown")
            /\ returned' = NoReturn
            /\ UNCHANGED <<clientKept, serverActive, reading>>
      /\ reply'.text = "ShuttingDown" => (isShuttingDown /\ reply'.isError) ]_vars

\* a call was refused while the drain loop waits for calls in flight
C12_Witness ==
  /\ reply = Refused("ShuttingDown")
  /\ isShuttingDown
  /\ serverActive > 0
  /\ exited = "no"

(***************************************************************************)
(* C13 Shutdown drain: the graceful end (transport closed, exit code 0) is *)
(*     reached only from a state in which no tool call is active: the      *)
(*     active set is empty and no handler is suspended in a file read or   *)
(*     in complete().  A call in flight at the signal therefore ends       *)
(*     before the graceful end.                                            *)
(***************************************************************************)
C13_DrainBeforeGracefulExit ==
  exited = "graceful" =>
    /\ isShuttingDown
    /\ serverActive = 0
    /\ reading = 0
    /\ calls = EmptyBag
    /\ activeRequests = 0

\* the drain loop slept at least once, so calls were in flight at the signal,
\* and then found the set empty
C13_Witness ==
  /\ exited = "graceful"
  /\ polls > 0
  /\ totalRequests > 0

(***************************************************************************)
(* C14 (as claimed)  After a shutdown signal the process ends gracefully   *)
(*     if the active set drains before the grace timeout, and is forced    *)
(*     to end (exit 1) only when the timeout elapses while calls are still *)
(*     outstanding.                                                        *)
(*     The drain loop looks at the set once a second: a set that empties   *)
(*     after the loop's last look is not seen before the grace timer fires.*)
(***************************************************************************)
C14_AsClaimed == exited = "forced" => serverActive > 0

(***************************************************************************)
(* C14 Bounded shutdown: after a shutdown signal the process always ends.  *)
(*     It ends gracefully exactly when a test of the drain loop (at the    *)
(*     signal, then after each 1 s sleep) finds the active set empty, and  *)
(*     it is forced to end only by the grace timer, gracefulShutdownTimeout*)
(*     after the signal, when no test has found the set empty by then.     *)
(*     Once ended gracefully it is never forced.                           *)
(***************************************************************************)
C14_BoundedShutdown ==
  /\ isShuttingDown ~> exited # "no"
  /\ [][ /\ exited # "no" => exited' = exited
         /\ (exited = "no" /\ exited' = "forced") =>
               (isShuttingDown /\ NextPollAt(polls) >= gracefulShutdownTimeout)
         /\ (exited = "no" /\ exited' = "graceful") => (isShuttingDown' /\ serverActive = 0)
         /\ (serverActive = 0 /\ (signals' # signals \/ polls' # polls)) =>
               exited' = "graceful" ]_vars

\* the grace timer ended the process while a call was still outstanding
C14_Witness ==
  /\ exited = "forced"
  /\ serverActive > 0
  /\ polls > 0

(***************************************************************************)
(* C15 The client's shutdown() clears the cache, sets a shutdown flag so   *)
(*     that every complete() issued after it fails as ShuttingDown, and    *)
(*     releases the monitor so that no periodic health probe starts any    *)
(*     more; a second shutdown() changes nothing.                          *)
(*     The code only empties and closes the cache: the client has no such  *)
(*     flag, and the setInterval of the health loop is never cleared.      *)
(***************************************************************************)
C15_ShutdownStopsClient ==
  [][ /\ shutdownCalled => shutdownCalled'
      /\ (shutdownCalled' /\ ~shutdownCalled) => cache' = [k \in Keys |-> <<>>]
      /\ (shutdownCalled /\ Arrived) => returned'.outcome = "ShuttingDown"
      /\ shutdownCalled => bgProbes' <= bgProbes ]_vars

\* the errors a tool call can end with: admission (rate, concurrency), health
\* gate, the last attempt's failure, shutdown, tool lookup, validation
ErrorKinds ==
  {"RateLimit", "TooMany", "Unavailable", "ShuttingDown", "UnknownTool", "Validation"}
    \cup Failures

(***************************************************************************)
(* C16 Every tool call ends with a returned result: whatever is thrown     *)
(*     beneath the handler (rate or concurrency limit, unavailable,        *)
(*     time-out, remote error, shutting down, unknown tool, validation)    *)
(*     comes back as an isError result, a success as a plain result, and   *)
(*     in each case the call's request id leaves the active set: the set   *)
(*     holds exactly the handlers that have not returned.                  *)
(***************************************************************************)
C16_ErrorsBecomeResults ==
  [][ /\ serverActive = BagCardinality(calls) + reading
      /\ serverActive' = BagCardinality(calls') + reading'
      /\ returned'.outcome \in ErrorKinds =>
            reply' = [isError |-> TRUE, text |-> returned'.outcome]
      /\ returned'.outcome \in {"ok", "cached"} =>
            reply' = [isError |-> FALSE, text |-> returned'.result]
      /\ reply'.isError => reply'.text \in ErrorKinds
      /\ (reply' # NoReply /\ ~ServerArrived) => serverActive' = serverActive - 1
      /\ (reply' # NoReply /\ ServerArrived) => serverActive' = serverActive ]_vars

\* the last attempt of a call timed out and its handler returned the error
C16_Witness ==
  /\ reply = [isError |-> TRUE, text |-> "Timeout"]
  /\ returned.outcome = "Timeout"
  /\ serverActive = 0
  /\ totalErrors > 0

(***************************************************************************)
(* C17 A call rejected by the admission gate (rate or concurrency limit)   *)
(*     is rejected in the step it arrives in and leaves nothing behind: no *)
(*     suspended call that could issue a remote call later, no probe, no   *)
(*     change of activeRequests or totalRequests, and no new timestamp:    *)
(*     the rate window only loses its entries of 60 s ago or older.        *)
(***************************************************************************)
C17_RejectedNotQueued ==
  [][ (Arrived /\ returned'.outcome \in {"RateLimit", "TooMany"}) =>
        /\ calls' = calls
        /\ bgProbes' = bgProbes
        /\ activeRequests' = activeRequests
        /\ totalRequests' = totalRequests
        /\ totalErrors' = totalErrors
        /\ admissions' = admissions
        /\ requestTimestamps' =
              SelectSeq(requestTimestamps, LAMBDA x : now - x < OneMinute) ]_vars

\* a call was rejected for the concurrency limit while the window, emptied
\* by pruning, stayed empty
C17_Witness ==
  /\ returned.outcome = "TooMany"
  /\ requestTimestamps = <<>>
  /\ activeRequests > 0

(***************************************************************************)
(* C18 The server's set of active request ids, which the shutdown drain    *)
(*     polls, never holds more than maxConcurrent entries.                 *)
(*     The handler adds its id (line 54) before anything is checked, and   *)
(*     keeps it while the tool reads a file or complete() waits for a      *)
(*     re-probe: calls the admission gate has not counted yet.             *)
(***************************************************************************)
C18_ActiveSetWithinBound == serverActive <= maxConcurrent

(***************************************************************************)
(* C19 A cache key identifies logically identical requests: two calls of   *)
(*     process_markdown with the same validated arguments get the same     *)
(*     key, and two calls that build different prompts never get the same  *)
(*     key, so that a cache hit returns a result computed for the same     *)
(*     prompt.                                                             *)
(*     The code leaves maxLength, which is part of the prompt, out of the  *)
(*     key.                                                                *)
(***************************************************************************)
C19_KeyIdentifiesPrompt ==
  (lastCall.made /\ prevCall.made) =>
    /\ lastCall.args = prevCall.args => lastCall.key = prevCall.key
    /\ lastCall.prompt # prevCall.prompt => lastCall.key # prevCall.key

(***************************************************************************)
(* C20 Retry delays: nothing is waited before the first attempt, and the   *)
(*     delay before the retry that follows failed attempt k, for k in      *)
(*     1..maxRetries, is min(retryDelay * k, retryDelay * 3).              *)
(***************************************************************************)
C20_RetryDelays ==
  /\ Len(retryRun.delays) =
       IF retryRun.phase = "sleep" THEN retryRun.attemptNumber
       ELSE retryRun.attemptNumber - 1
  /\ Len(retryRun.delays) <= retryLimit
  /\ \A k \in DOMAIN retryRun.delays :
        retryRun.delays[k] = Min(retryDelay * k, retryDelay * 3)

\* the run waits after its fourth failed attempt: doubling would give 8 *
\* retryDelay, attempt-number growth 4 * retryDelay, the cap gives 3 * retryDelay
C20_Witness ==
  /\ retryRun.phase = "sleep"
  /\ retryRun.attemptNumber = 4
  /\ retryRun.delays[4] = retryDelay * 3

(***************************************************************************)
(* C21 A call rejected by the admission gate (either limit) increments     *)
(*     totalRequests by exactly one and leaves totalErrors unchanged.      *)
(*     The code counts nothing for it: enforceRateLimit() throws at line   *)
(*     111, before the totalRequests++ of line 123.                        *)
(***************************************************************************)
C21_RejectionCounted ==
  [][ (Arrived /\ returned'.outcome \in {"RateLimit", "TooMany"}) =>
        /\ totalRequests' = totalRequests + 1
        /\ totalErrors' = totalErrors ]_vars

(***************************************************************************)
(* C22 A dispatched complete() call that ends in failure increments        *)
(*     totalErrors exactly once, however many of its attempts failed, and  *)
(*     throws a failure in which a time-out of the final attempt is told   *)
(*     apart from every other remote failure; an attempt that fails with   *)
(*     retries left, and a call that succeeds (after failed attempts or    *)
(*     not), leave totalErrors unchanged.                                  *)
(***************************************************************************)
C22_ErrorsCountedPerCall ==
  [][ IF returned'.outcome \in Failures
        THEN /\ totalErrors' = totalErrors + 1
             /\ returned'.attempts >= 1
             /\ returned'.outcome = "Timeout" <=> returned'.cause = "timeout"
        ELSE totalErrors' = totalErrors ]_vars

\* one call has failed, and a later one has succeeded on its last attempt
\* after its earlier attempts failed
C22_Witness ==
  /\ returned.outcome = "ok"
  /\ returned.attempts = maxRetries + 1
  /\ totalErrors = 1

\* the failures of a call that was not dispatched
Refusals == {"RateLimit", "TooMany", "Unavailable"}

\* key k had an entry whose TTL has elapsed, and the step removed it (get()
\* deletes such an entry when it meets one)
ExpiredDropped(k) == cache[k] # <<>> /\ cache[k][2] < now /\ cache'[k] = <<>>

(***************************************************************************)
(* C23 An entry is stored only by a dispatched call that succeeds with     *)
(*     caching enabled and a cache key, and the entry is that call's       *)
(*     result under that key with the configured TTL; a call that fails,   *)
(*     is rejected or is unavailable stores nothing; with caching disabled *)
(*     the cache stays empty and serves no call, and a call without a key  *)
(*     neither is served from the cache nor changes it.  (The lookup of a  *)
(*     call with a key drops the entry of that key if its TTL has elapsed: *)
(*     that is no store.)                                                  *)
(***************************************************************************)
C23_CacheWrittenOnSuccess ==
  [][ /\ \A k \in Keys :
           cache'[k] # cache[k] =>
             \/ /\ cacheEnabled
                /\ returned'.outcome = "ok" /\ returned'.key = k /\ returned'.attempts >= 1
             \/ cacheEnabled /\ Arrived /\ ArrivedKey = k /\ ExpiredDropped(k)
      /\ (cacheEnabled /\ returned'.outcome = "ok" /\ returned'.key # NoKey) =>
           cache'[returned'.key] = <<returned'.result, now + ttl * 1000>>
      /\ returned'.outcome \in Failures \cup Refusals =>
           \A k \in Keys : cache'[k] = cache[k] \/ ExpiredDropped(k)
      /\ ~cacheEnabled =>
           /\ cache' = [k \in Keys |-> <<>>]
           /\ returned'.outcome # "cached"
      /\ ((Arrived /\ ArrivedKey = NoKey) \/ (returned' # NoReturn /\ returned'.key = NoKey)) =>
           /\ cache' = cache
           /\ returned'.outcome # "cached" ]_vars

\* with caching disabled a call that passed a key has succeeded and the cache
\* is empty
C23_Witness ==
  /\ ~cacheEnabled
  /\ returned.outcome = "ok"
  /\ returned.key \in Keys
  /\ cache = [k \in Keys |-> <<>>]

(***************************************************************************)
(* C24 A complete() call that fails as Unavailable holds no admission      *)
(*     afterwards: neither the step in which it comes to wait for its      *)
(*     re-probe nor the step in which it fails changes activeRequests,     *)
(*     totalRequests or totalErrors, and activeRequests still counts       *)
(*     exactly the dispatched calls.                                       *)
(***************************************************************************)
C24_UnavailableHoldsNothing ==
  [][ /\ (returned'.outcome = "Unavailable"
            \/ CountAt(calls', {"probing"}) > CountAt(calls, {"probing"})) =>
           UNCHANGED <<activeRequests, totalRequests, totalErrors>>
      /\ returned'.outcome = "Unavailable" =>
           activeRequests' = CountAt(calls', {"running", "waiting"}) ]_vars

\* a call has failed as unavailable while another call, dispatched before,
\* is still in flight and counted
C24_Witness ==
  /\ returned.outcome = "Unavailable"
  /\ activeRequests = 1
  /\ totalRequests = 1
  /\ totalErrors = 0

(***************************************************************************)
(* C25 The health timestamp is the time of the last probe, whatever its    *)
(*     outcome: a complete() call that passes admission while unhealthy    *)
(*     less than 10 seconds after the most recent completed probe          *)
(*     (successful or failed) fails as Unavailable without starting a      *)
(*     re-probe.                                                           *)
(*     The code writes lastHealthCheck only when a probe succeeds (line    *)
(*     56): after a failed probe the reading is as old as the last         *)
(*     success, and a call that arrives right after it probes again.       *)
(***************************************************************************)
C25_TimestampOfLastProbe ==
  [][ /\ probed' # "none" => lastHealthCheck' = probedAt'
      /\ (PassedGate /\ ~isHealthy /\ probed # "none" /\ now - probedAt < StaleAfter) =>
           /\ returned'.outcome = "Unavailable"
           /\ CountAt(calls', {"probing"}) = CountAt(calls, {"probing"}) ]_vars

(***************************************************************************)
(* C26 The health state (isHealthy, lastHealthCheck) is changed only by    *)
(*     the completion of a probe (checkHealth): the step that changes it   *)
(*     is one in which a probe of the loop or the re-probe of a call       *)
(*     settles.  The outcome of a completion request (success, failure,    *)
(*     time-out, exhausted retries), an admission rejection, a cache hit   *)
(*     and getMetrics() leave it as it was.                                *)
(***************************************************************************)
C26_HealthWrittenByProbesOnly ==
  [][ /\ (isHealthy' # isHealthy \/ lastHealthCheck' # lastHealthCheck) =>
           /\ \/ bgProbes' < bgProbes
              \/ CountAt(calls', {"probing"}) < CountAt(calls, {"probing"})
           /\ probedAt' = now
      /\ returned'.outcome \in {"ok", "cached", "RateLimit", "TooMany"} \cup Failures =>
           UNCHANGED <<isHealthy, lastHealthCheck>>
      /\ CountAt(calls', {"waiting"}) # CountAt(calls, {"waiting"}) =>
           UNCHANGED <<isHealthy, lastHealthCheck>> ]_vars

\* a call has used up its attempts on endpoint errors, and the state is
\* still the healthy one the last probe wrote
C26_Witness ==
  /\ returned.outcome = "RemoteError"
  /\ returned.attempts = maxRetries + 1
  /\ isHealthy
  /\ probed = "ok"

(***************************************************************************)
(* C27 Every kind of attempt failure (time-out, error reported by the      *)
(*     endpoint, response that does not conform to the schema) is retried  *)
(*     alike: an attempt that fails with retries left is followed by the   *)
(*     back-off and no result, and a call fails, whatever the kind, only   *)
(*     on its (maxRetries + 1)-th attempt.  A response that does not       *)
(*     conform is never returned as a successful result nor stored in the  *)
(*     cache.                                                              *)
(***************************************************************************)
C27_FailuresRetriedAlike ==
  [][ /\ returned'.outcome \in Failures =>
           /\ returned'.attempts = maxRetries + 1
           /\ returned'.cause \in FailKinds
           /\ returned'.result = Undefined
           /\ cache' = cache
      /\ (CountAt(calls', {"running"}) < CountAt(calls, {"running"})
            /\ returned'.outcome \notin Failures \cup {"ok"}) =>
           /\ CountAt(calls', {"waiting"}) = CountAt(calls, {"waiting"}) + 1
           /\ \A r \in BagToSet(calls') : r.pc = "waiting" => r.attempts <= maxRetries
           /\ returned' = NoReturn
           /\ cache' = cache
      /\ returned'.cause = "invalid" =>
           /\ returned'.outcome = "InvalidResponse"
           /\ \A k \in Keys : cache'[k] = cache[k]
      /\ returned'.outcome = "ok" =>
           (returned'.cause = "none" /\ returned'.result \in Values) ]_vars

\* a call with a cache key has failed on a response that did not conform,
\* after maxRetries + 1 attempts, and its key has no entry
C27_Witness ==
  /\ cacheEnabled
  /\ returned.outcome = "InvalidResponse"
  /\ returned.attempts = maxRetries + 1
  /\ returned.key \in Keys
  /\ cache[returned.key] = <<>>

\* the first attempt of some call has been issued: a call is in flight, or
\* the call that has just settled had made an attempt
SomeCallDispatched ==
  \/ Suspended({"running", "waiting"}) # {}
  \/ returned.attempts >= 1
  \/ activeRequests > 0

(***************************************************************************)
(* C28 The first probe is started at construction, before any interval     *)
(*     tick: until a probe has settled, the probe of the constructor is in *)
(*     flight.  The health state is not healthy until some probe has       *)
(*     succeeded (lastHealthCheck is then the time of a success, no        *)
(*     earlier than the construction), and no complete() call has been     *)
(*     dispatched to the endpoint before a probe has succeeded.            *)
(***************************************************************************)
C28_ProbeBeforeDispatch ==
  /\ probed = "none" =>
       /\ bgProbes >= 1
       /\ ~isHealthy
       /\ lastHealthCheck = 0
  /\ (now = StartTime /\ nextHealthCheck = StartTime + healthCheckInterval /\ bgProbes = 0) =>
       probed # "none"
  /\ isHealthy => lastHealthCheck >= StartTime
  /\ SomeCallDispatched => lastHealthCheck >= StartTime

\* a call has been dispatched in the instant of the construction, before the
\* interval has fired once: the probe of the constructor has succeeded
C28_Witness ==
  /\ Suspended({"running"}) # {}
  /\ now = StartTime
  /\ nextHealthCheck = StartTime + healthCheckInterval
  /\ bgProbes = 0
  /\ lastHealthCheck = StartTime

(***************************************************************************)
(* C29 Self-healing: if from some time on the endpoint is reachable and    *)
(*     stays so, the health state eventually becomes healthy through the   *)
(*     probes of the loop alone, no complete() call being made (the        *)
(*     interval keeps firing and every probe settles).                     *)
(***************************************************************************)
C29_SelfHealing == []([](endpoint = "up") => <>isHealthy)

\* with no complete() call made, a probe started by the interval after the
\* endpoint had been found down has succeeded
C29_Witness ==
  /\ endpoint = "up"
  /\ isHealthy
  /\ lastHealthCheck > StartTime
  /\ probedAt = lastHealthCheck
  /\ totalRequests = 0
  /\ admissions = <<>>

(***************************************************************************)
(* C30 Last write wins on one key: every call that succeeds with a cache   *)
(*     key replaces the entry of that key by its own result, whatever      *)
(*     another call with the same key had stored while it was in flight,   *)
(*     and no other step gives the key a value; so when several in-flight  *)
(*     calls with one key have all succeeded, the key holds the result of  *)
(*     the one that completed last.  The entries of the other keys are     *)
(*     left as they were.                                                  *)
(***************************************************************************)
C30_LastWriteWins ==
  [][ \A k \in Keys :
        /\ (cacheEnabled /\ returned'.outcome = "ok" /\ returned'.key = k) =>
             /\ cache'[k] = <<returned'.result, now + ttl * 1000>>
             /\ \A j \in Keys \ {k} : cache'[j] = cache[j]
        /\ (cache'[k] # cache[k] /\ cache'[k] # <<>>) =>
             /\ returned'.outcome = "ok"
             /\ returned'.key = k
             /\ cache'[k][1] = returned'.result ]_vars

\* two calls with the key k1 were in flight together: one has just stored its
\* result, which is live, and the other, which had entered before that, is
\* still running and will replace it
C30_Witness ==
  /\ cacheEnabled
  /\ returned.outcome = "ok"
  /\ returned.key = "k1"
  /\ returned.result = "a"
  /\ cache["k1"] = <<"a", now + ttl * 1000>>
  /\ \E r \in Suspended({"running"}) : r.key = "k1" /\ r.attemptAt = now
  /\ activeRequests = 1

(***************************************************************************)
(* C31 A dispatched call whose validated response has no first choice, or  *)
(*     whose first choice has empty content, returns the empty string as a *)
(*     successful result: the step in which that response arrives settles  *)
(*     the call with "", leaves totalErrors as it was, releases the slot   *)
(*     and starts no back-off.                                             *)
(***************************************************************************)
C31_EmptyResponseIsSuccess ==
  [][ /\ returned'.response \in {<< <<>> >>, << <<"">> >>} =>
           /\ returned'.outcome = "ok"
           /\ returned'.result = ""
           /\ totalErrors' = totalErrors
           /\ activeRequests' = activeRequests - 1
           /\ CountAt(calls', {"waiting"}) = CountAt(calls, {"waiting"})
           /\ CountAt(calls', {"running"}) = CountAt(calls, {"running"}) - 1
      /\ returned'.response # <<>> =>
           /\ returned'.outcome = "ok"
           /\ returned'.result \in Values ]_vars

\* a call has succeeded on its first attempt with a response without choices
C31_Witness ==
  /\ returned.response = << <<>> >>
  /\ returned.outcome = "ok"
  /\ returned.result = ""
  /\ returned.attempts = 1
  /\ totalErrors = 0

(***************************************************************************)
(* C32 At every moment the rate figure reported by getMetrics()            *)
(*     (requestsPerMinute) equals the number of calls admitted within the  *)
(*     trailing 60 seconds.                                                *)
(*     The code reports the length of requestTimestamps, which is pruned   *)
(*     only when a call reaches enforceRateLimit(): timestamps older than  *)
(*     60 s are counted until the next call arrives.                       *)
(***************************************************************************)
C32_RateFigureIsWindowCount == getMetrics.requestsPerMinute = Len(admissions)

(***************************************************************************)
(* C33 Every dispatched complete() call eventually terminates and releases *)
(*     its slot: once no new calls arrive, activeRequests returns to 0 and *)
(*     no call stays suspended, whatever the endpoint does (it may never   *)
(*     answer: each attempt is ended by its time-out and the attempts are  *)
(*     at most maxRetries + 1).                                            *)
(***************************************************************************)
C33_CallsTerminate ==
  (activeRequests > 0 \/ calls # EmptyBag) ~> (activeRequests = 0 /\ calls = EmptyBag)

\* after the arrivals have ended, the last call in flight has been ended by
\* the time-out of its last attempt, and no slot is held
C33_Witness ==
  /\ now > EndTime
  /\ returned.outcome = "Timeout"
  /\ returned.attempts = maxRetries + 1
  /\ activeRequests = 0
  /\ calls = EmptyBag

\* line 76: the timestamps younger than 60 s at time t
Pruned(ts, t) == SelectSeq(ts, LAMBDA x : x > t - OneMinute)

\* what the claim C34 says of a step, for the calls that it is about
StampedOnce(applies) ==
  /\ (applies /\ PassedGate) =>
       requestTimestamps' = Append(Pruned(requestTimestamps, now), now)
  /\ (Arrived /\ returned'.outcome = "cached") =>
       requestTimestamps' = requestTimestamps
  /\ (Arrived /\ returned'.outcome \in {"RateLimit", "TooMany"}) =>
       requestTimestamps' = Pruned(requestTimestamps, now)
  /\ ~Arrived => requestTimestamps' = requestTimestamps

(***************************************************************************)
(* C34 (as claimed) Every complete() call that passes the admission gate   *)
(*     appends exactly one timestamp to the rate window, including a call  *)
(*     that subsequently fails as Unavailable; cache hits and gate         *)
(*     rejections append none.                                             *)
(***************************************************************************)
C34_AsClaimed == [][ StampedOnce(TRUE) ]_vars

(***************************************************************************)
(* C34 (amended) With rate limiting enabled, every complete() call that    *)
(*     passes the admission gate appends exactly one timestamp, the time   *)
(*     of its admission, to the rate window, and the timestamp stays when  *)
(*     the call then fails as Unavailable (at once or after its re-probe); *)
(*     cache hits and gate rejections append none, and no other step       *)
(*     changes the window.  With rate limiting disabled a call passes      *)
(*     without a timestamp.                                                *)
(***************************************************************************)
C34_AdmissionStamped ==
  [][ /\ StampedOnce(rateLimitEnabled)
      /\ (~rateLimitEnabled /\ PassedGate) => requestTimestamps' = requestTimestamps ]_vars

\* a call that passed the gate has failed as unavailable, and its timestamp
\* is the only one of the window
C34_Witness ==
  /\ rateLimitEnabled
  /\ returned.outcome = "Unavailable"
  /\ requestTimestamps = <<now>>
  /\ totalRequests = 0

(***************************************************************************)
(* C35 When probes overlap (the probe of the loop and the re-probes of     *)
(*     calls in flight together), the health state is at every moment the  *)
(*     outcome of the probe that settled last, whichever was started       *)
(*     first: so it is after all of them have completed.                   *)
(***************************************************************************)
C35_LastProbeWins ==
  /\ probed = "none" => ~isHealthy
  /\ probed # "none" => (isHealthy <=> probed = "ok")
  /\ probed = "ok" => lastHealthCheck = probedAt

\* the probe of the constructor and the re-probe of a call overlapped: the
\* re-probe, started later, failed first (the call was admitted and never
\* dispatched), then the probe of the constructor succeeded, and the state
\* is healthy
C35_Witness ==
  /\ now = StartTime
  /\ nextHealthCheck = StartTime + healthCheckInterval
  /\ bgProbes = 0
  /\ calls = EmptyBag
  /\ Len(admissions) = 1
  /\ totalRequests = 0
  /\ isHealthy
  /\ probed = "ok"

(***************************************************************************)
(* C36 Every in-flight client call belongs to an in-flight tool call: the  *)
(*     client's activeRequests, and the calls suspended in complete(),     *)
(*     are never more than the server's active tool calls, so whenever the *)
(*     server's set is empty the client's counter is 0 and no call is      *)
(*     suspended; the drain loop, which exits gracefully on an empty set,  *)
(*     does not do so while a remote call is in flight.                    *)
(***************************************************************************)
C36_ClientCallsWithinToolCalls ==
  /\ activeRequests <= serverActive
  /\ BagCardinality(calls) + reading <= serverActive
  /\ serverActive = 0 => (activeRequests = 0 /\ calls = EmptyBag)

\* during a shutdown the last tool call has just returned the result of its
\* client call: the set is empty and the counter is 0, the exit is still to come
C36_Witness ==
  /\ isShuttingDown
  /\ exited = "no"
  /\ returned.outcome = "ok"
  /\ ~reply.isError
  /\ serverActive = 0
  /\ activeRequests = 0

(***************************************************************************)
(* C37 With the rate-limit flag disabled enforceRateLimit admits every     *)
(*     call: a call that arrives is answered from the cache or passes the  *)
(*     gate, however many were admitted in the last minute and however     *)
(*     many are active, none is refused as RateLimit or TooMany, and the   *)
(*     rate window stays empty in every state.                             *)
(***************************************************************************)
C37_DisabledGateAdmitsAll ==
  /\ [](~rateLimitEnabled => requestTimestamps = <<>>)
  /\ [][ (~rateLimitEnabled /\ Arrived) =>
           /\ returned'.outcome = "cached" \/ PassedGate
           /\ returned'.outcome \notin {"RateLimit", "TooMany"} ]_vars

\* with the flag disabled more calls are active than maxConcurrent and more
\* were admitted within the minute than maxRequestsPerMinute, and the window
\* is empty
C37_Witness ==
  /\ ~rateLimitEnabled
  /\ activeRequests > maxConcurrent
  /\ Len(admissions) > maxRequestsPerMinute
  /\ admissions[1] > now - OneMinute
  /\ requestTimestamps = <<>>

(***************************************************************************)
(* C38 With rate limiting enabled the rate window never holds more than    *)
(*     maxRequestsPerMinute timestamps, in any state, and its timestamps   *)
(*     are in non-decreasing order of time, none later than the present.   *)
(***************************************************************************)
C38_WindowBoundedAndOrdered ==
  rateLimitEnabled =>
    /\ Len(requestTimestamps) <= maxRequestsPerMinute
    /\ \A i \in 1..Len(requestTimestamps) :
         /\ requestTimestamps[i] <= now
         /\ i > 1 => requestTimestamps[i - 1] <= requestTimestamps[i]

\* the window is full of two admissions made at different times, the older
\* first, the later made at the present instant, and the last call to
\* return was not refused
C38_Witness ==
  /\ rateLimitEnabled
  /\ Len(requestTimestamps) = maxRequestsPerMinute
  /\ requestTimestamps[1] < requestTimestamps[Len(requestTimestamps)]
  /\ requestTimestamps[Len(requestTimestamps)] = now
  /\ returned.outcome \notin {"RateLimit", "TooMany", "cached"}

(***************************************************************************)
(* C39 In every state 0 <= totalErrors <= totalRequests, no step decreases *)
(*     either counter, and the errorRate that getMetrics() reports (the    *)
(*     quotient totalErrors / totalRequests, or 0 before the first         *)
(*     request) lies between 0 and 1.                                      *)
(***************************************************************************)
C39_ErrorsWithinRequests ==
  /\ [](/\ 0 <= totalErrors
        /\ totalErrors <= totalRequests
        /\ getMetrics.errorRate[2] > 0
        /\ 0 <= getMetrics.errorRate[1]
        /\ getMetrics.errorRate[1] <= getMetrics.errorRate[2])
  /\ [][ /\ totalErrors' >= totalErrors
         /\ totalRequests' >= totalRequests ]_vars

\* every request counted so far was dispatched and failed, the last of them
\* just now: the error rate is 1
C39_Witness ==
  /\ returned.outcome \in Failures
  /\ totalErrors = totalRequests
  /\ totalRequests > 1
  /\ getMetrics.errorRate = <<totalErrors, totalRequests>>

====
